---- MODULE Spec2Model ----
(***************************************************************************)
(* Simulador de Evaluacion de Proyectos (VAN y TIR), src/app.py.           *)
(*                                                                         *)
(* The Streamlit script is re-executed from top to bottom after every      *)
(* widget interaction.  The state is the value of the three sidebar        *)
(* widgets, the table held by the data editor, and the script variables    *)
(* the run leaves behind (flujos_completo, van, tir, tir_display and the   *)
(* two indicator colours).  Every action is one interaction followed by    *)
(* the whole re-run of the script.                                         *)
(*                                                                         *)
(* Numbers.  Money is a whole number of dollars.  Percentages are held in  *)
(* tenths of a percent (12.0 % is 120), rates in units of 1/Escala.        *)
(* npf.net_present_value is evaluated exactly, as a fraction of two        *)
(* arbitrary-size integers; npf.irr is evaluated to the resolution of the  *)
(* rate grid: a finite IRR is the grid cell [k, k+1) / Escala that holds   *)
(* the root.  IEEE rounding below that resolution is not modelled.  The    *)
(* non-finite floats (nan, inf, -inf) are modelled as themselves.          *)
(***************************************************************************)
EXTENDS Integers, Sequences, FiniteSets, TLC

(***************************************************************************)
(* Arbitrary-size integers: TLC's own integers have 32 bits, and the       *)
(* discounted sums of six flows do not fit.  A magnitude is a sequence of  *)
(* limbs, least significant first, without leading zero limbs; a big       *)
(* integer is a sign and a magnitude.                                      *)
(***************************************************************************)
Base == 100 * 100

Abs(i) == IF i < 0 THEN -i ELSE i

Sgn(i) == IF i < 0 THEN -1 ELSE IF i > 0 THEN 1 ELSE 0

\* The value v bound to a name x in an expression e is written
\* Valor({e : x \in {v}}): TLC evaluates a set's members once, and an operator's
\* argument every time the operator reads it.
Valor(S) == CHOOSE r \in S : TRUE

RECURSIVE MagOfNat(_)
MagOfNat(n) == IF n = 0 THEN <<>> ELSE <<n % Base>> \o MagOfNat(n \div Base)

RECURSIVE MagStrip(_)
MagStrip(a) ==
    IF a = <<>> THEN a
    ELSE IF a[Len(a)] = 0 THEN MagStrip(SubSeq(a, 1, Len(a) - 1)) ELSE a

Limb(a, i) == IF i <= Len(a) THEN a[i] ELSE 0

\* a + b from limb i on, with carry c
RECURSIVE MagAddC(_, _, _, _)
MagAddC(a, b, i, c) ==
    IF i > Len(a) /\ i > Len(b) THEN (IF c = 0 THEN <<>> ELSE <<c>>)
    ELSE Valor({<<s % Base>> \o MagAddC(a, b, j, s \div Base) :
                    s \in {Limb(a, i) + Limb(b, i) + c}, j \in {i + 1}})

\* a - b from limb i on, with borrow c, for a >= b, before stripping
RECURSIVE MagSubC(_, _, _, _)
MagSubC(a, b, i, c) ==
    IF i > Len(a) THEN <<>>
    ELSE Valor({<<IF d < 0 THEN d + Base ELSE d>>
                    \o MagSubC(a, b, j, IF d < 0 THEN 1 ELSE 0) :
                    d \in {a[i] - Limb(b, i) - c}, j \in {i + 1}})

\* a * k from limb i on, with carry c, for a natural k with Base * k within 32 bits
RECURSIVE MagMulC(_, _, _, _)
MagMulC(a, k, i, c) ==
    IF i > Len(a) THEN MagOfNat(c)
    ELSE Valor({<<s % Base>> \o MagMulC(a, k, j, s \div Base) :
                    s \in {a[i] * k + c}, j \in {i + 1}})

RECURSIVE MagCmpFrom(_, _, _)
MagCmpFrom(a, b, i) ==
    IF i = 0 THEN 0
    ELSE IF a[i] # b[i] THEN Sgn(a[i] - b[i])
    ELSE Valor({MagCmpFrom(a, b, j) : j \in {i - 1}})

MagCmp(a, b) ==
    IF Len(a) # Len(b) THEN Sgn(Len(a) - Len(b)) ELSE MagCmpFrom(a, b, Len(a))

\* a * b, from limb i of b on
RECURSIVE MagMulFrom(_, _, _)
MagMulFrom(a, b, i) ==
    IF i > Len(b) THEN <<>>
    ELSE Valor({MagAddC(lo, IF hi = <<>> THEN hi ELSE <<0>> \o hi, 1, 0) :
                    lo \in {MagMulC(a, b[i], 1, 0)},
                    hi \in {MagMulFrom(a, b, i + 1)}})

MagMul(a, b) == IF a = <<>> THEN <<>> ELSE MagStrip(MagMulFrom(a, b, 1))

Big(s, m) == [s |-> IF m = <<>> THEN 0 ELSE s, m |-> m]

BigOfInt(i) == Big(Sgn(i), MagOfNat(Abs(i)))

BigNeg(a) == Big(-a.s, a.m)

BigSum(a, b) ==
    IF a.s = 0 THEN b
    ELSE IF b.s = 0 THEN a
    ELSE IF a.s = b.s THEN Big(a.s, MagAddC(a.m, b.m, 1, 0))
    ELSE Valor({IF c = 0 THEN Big(0, <<>>)
                ELSE IF c > 0 THEN Big(a.s, MagStrip(MagSubC(a.m, b.m, 1, 0)))
                ELSE Big(b.s, MagStrip(MagSubC(b.m, a.m, 1, 0))) :
                    c \in {MagCmp(a.m, b.m)}})

BigAdd(a, b) == Valor({BigSum(x, y) : x \in {a}, y \in {b}})

BigMulInt(a, k) ==
    Valor({IF j = 0 THEN Big(0, <<>>) ELSE Big(x.s * Sgn(j), MagMulC(x.m, Abs(j), 1, 0)) :
               x \in {a}, j \in {k}})

BigMul(a, b) == Valor({Big(x.s * y.s, MagMul(x.m, y.m)) : x \in {a}, y \in {b}})

\* the sign of a - b
BigCmp(a, b) == BigAdd(a, BigNeg(b)).s

(***************************************************************************)
(* Floats.  A cell of the editor that the user has emptied is NaN; a sum   *)
(* or difference with a NaN operand is NaN.  Among the amounts NaN is a    *)
(* number apart from every amount of money the model handles.              *)
(***************************************************************************)
NaN == -(2^30)

\* tenths of a percent in one percent: tasa_descuento = 120 is 12.0 %
Decimas == 5 + 5

\* the rate grid: a rate is a whole number of 1 / Escala; "/ 100" of line 83
\* takes tenths of a percent to this grid, "* 100" of line 88 takes it back
Escala == Decimas * 100

Resta(a, b) == IF a = NaN \/ b = NaN THEN NaN ELSE a - b

Negativo(a) == IF a = NaN THEN NaN ELSE -a

TieneNaN(values) == \E i \in 1..Len(values) : values[i] = NaN

\* the coefficients that numpy's nonzero() reports: NaN is not zero
NoCeros(values) == {i \in 1..Len(values) : values[i] # 0}

(***************************************************************************)
(* sum over t of c[t+1] * p^t * q^(n-t), n = Len(c) - 1: the polynomial    *)
(* with coefficients c at the point p / q, times q^n.  Horner's rule from  *)
(* the highest coefficient down.                                           *)
(***************************************************************************)
\* a * k for a coefficient k of any size
BigMulCoef(a, k) ==
    IF Abs(k) < Base * 10 THEN BigMulInt(a, k) ELSE BigMul(a, BigOfInt(k))

RECURSIVE HornerHom(_, _, _, _, _, _)
HornerHom(c, p, q, i, acc, qp) ==
    IF i = 0 THEN acc
    ELSE Valor({Valor({HornerHom(c, p, q, j, a, qn) :
                           j \in {i - 1},
                           a \in {BigSum(BigMulInt(acc, p), BigMulCoef(qn, c[i]))}}) :
                    qn \in {BigMulInt(qp, q)}})

PolyHom(c, p, q) ==
    IF c = <<>> THEN BigOfInt(0)
    ELSE Valor({HornerHom(cv, pv, qv, Len(cv) - 1, BigOfInt(cv[Len(cv)]), BigOfInt(1)) :
                    cv \in {c}, pv \in {p}, qv \in {q}})

RECURSIVE BigPow(_, _)
BigPow(q, n) == IF n <= 0 THEN BigOfInt(1) ELSE BigMulInt(BigPow(q, n - 1), q)

(***************************************************************************)
(* npf.net_present_value(rate, values), line 83: the sum of                *)
(* values[t] / (1 + rate)^t.  rate is the fraction rate.n / rate.d.  With  *)
(* 1 + rate = 0 the divisor of every term but the first is 0.0, and the    *)
(* float quotient is inf, -inf or (0/0) nan; no exception is raised.       *)
(***************************************************************************)
Racional(n, d) == [n |-> n, d |-> d]

Finito(num, den) ==
    IF den.s < 0 THEN [kind |-> "num", n |-> BigNeg(num), d |-> BigNeg(den)]
    ELSE [kind |-> "num", n |-> num, d |-> den]

NoFinito(k) == [kind |-> k]

\* a variant of EntreCero: the terms with a zero divisor are left out of the sum
EntreCero_omitido(values) == Finito(BigOfInt(values[1]), BigOfInt(1))

EntreCero(values) ==
    LET pos == \E i \in 2..Len(values) : values[i] > 0
        neg == \E i \in 2..Len(values) : values[i] < 0
        ind == \E i \in 2..Len(values) : values[i] = 0
    IN  IF ind \/ (pos /\ neg) THEN NoFinito("nan")
        ELSE IF pos THEN NoFinito("inf")
        ELSE IF neg THEN NoFinito("-inf")
        ELSE Finito(BigOfInt(values[1]), BigOfInt(1))

\* a variant of Cociente: compounding, the sum of values[t] * (1 + rate)^t
Producto(rate, values) ==
    Valor({Finito(num, den) :
               num \in {PolyHom(values, rate.n + rate.d, rate.d)},
               den \in {BigPow(rate.d, Len(values) - 1)}})

Cociente(rate, values) ==
    Valor({Finito(num, den) :
               num \in {PolyHom(values, rate.d, rate.n + rate.d)},
               den \in {BigPow(rate.n + rate.d, Len(values) - 1)}})

\* a variant of net_present_value: the spreadsheet convention, in which the first
\* value is already discounted one period, the sum of values[t] / (1 + rate)^(t + 1)
net_present_value_desde1(rate, values) ==
    IF TieneNaN(values) THEN NoFinito("nan")
    ELSE IF rate.n + rate.d = 0 THEN NoFinito("nan")
    ELSE Valor({Finito(num, den) :
                    num \in {BigMulInt(PolyHom(values, rate.d, rate.n + rate.d), rate.d)},
                    den \in {BigPow(rate.n + rate.d, Len(values))}})

net_present_value(rate, values) ==
    IF TieneNaN(values) THEN NoFinito("nan")
    ELSE IF rate.n + rate.d = 0 THEN EntreCero(values)
    ELSE Cociente(rate, values)

EsFinito(v) == v.kind = "num"

\* van > 0 as the float comparison decides it
MayorQueCero(v) ==
    IF v.kind = "num" THEN v.n.s > 0 ELSE v.kind = "inf"

(***************************************************************************)
(* npf.irr(values), line 88 (numpy_financial 1.0):                         *)
(*     res  = np.roots(values[::-1])                                       *)
(*     mask = (res.imag == 0) & (res.real > 0)                             *)
(*     if not mask.any(): return np.nan                                    *)
(*     rate = 1/res[mask].real - 1                                         *)
(*     return rate.item(np.argmin(np.abs(rate)))                           *)
(* np.roots drops the zero coefficients at both ends, and with two or more *)
(* coefficients left hands the companion matrix to eigvals, which raises   *)
(* LinAlgError when the matrix holds a NaN.                                *)
(*                                                                         *)
(* The real roots x > 0 of sum values[t] x^t are located on the rate grid: *)
(* x = Escala / (Escala + k) is the rate k / Escala.  Cell k holds a root  *)
(* when the polynomial is zero at k or changes sign between k and k + 1.   *)
(***************************************************************************)
SignoEn(c, k) == Valor({PolyHom(cv, Escala, Escala + kv).s : cv \in {c}, kv \in {k}})

RECURSIVE CambiosDeSigno(_, _, _)
CambiosDeSigno(c, i, last) ==
    IF i > Len(c) THEN 0
    ELSE Valor({(IF c[i] # 0 /\ last # 0 /\ Sgn(c[i]) # last THEN 1 ELSE 0)
                    + CambiosDeSigno(c, j, l) :
                    j \in {i + 1}, l \in {IF c[i] = 0 THEN last ELSE Sgn(c[i])}})

Derivada(c) == [i \in 1..(Len(c) - 1) |-> i * c[i + 1]]

\* SignoEn(c, a) = sa and SignoEn(c, b) = -sa, sa # 0: a cell of [a, b) with a root
RECURSIVE Biseccion(_, _, _, _)
Biseccion(c, a, b, sa) ==
    IF b = a + 1 THEN a
    ELSE Valor({Valor({IF sm = 0 THEN mid
                       ELSE IF sm = sa THEN Biseccion(c, mid, b, sa)
                       ELSE Biseccion(c, a, mid, sa) :
                           sm \in {SignoEn(c, mid)}}) :
                    mid \in {(a + b) \div 2}})

\* the root cell of [a, b), at most one, of a polynomial monotone between a and b
Tramo(c, a, b) ==
    Valor({IF sa = 0 THEN <<a>>
           ELSE IF SignoEn(c, b) = -sa THEN <<Biseccion(c, a, b, sa)>>
           ELSE <<>> :
               sa \in {SignoEn(c, a)}})

\* the ends of the tramos after lo: each root cell k of the derivative gives k and k + 1
RECURSIVE Cortes(_, _, _)
Cortes(crit, i, last) ==
    IF i > Len(crit) THEN <<>>
    ELSE (IF crit[i] > last THEN <<crit[i]>> ELSE <<>>)
             \o <<crit[i] + 1>>
             \o Valor({Cortes(crit, j, l) : j \in {i + 1}, l \in {crit[i] + 1}})

RECURSIVE Tramos(_, _, _)
Tramos(c, pts, i) ==
    IF i >= Len(pts) THEN <<>>
    ELSE Tramo(c, pts[i], pts[i + 1]) \o Valor({Tramos(c, pts, j) : j \in {i + 1}})

Puntos(lo, mid, hi) ==
    <<lo>> \o mid \o (IF mid # <<>> /\ mid[Len(mid)] >= hi THEN <<>> ELSE <<hi>>)

\* the root cells of [lo, hi), in increasing order.  Descartes: no sign change in the
\* coefficients, no positive root; one, exactly one.  Otherwise Rolle: between two
\* consecutive roots of the derivative the polynomial is monotone.
RECURSIVE Celdas(_, _, _)
Celdas(c, lo, hi) ==
    Valor({IF n = 0 THEN <<>>
           ELSE IF n = 1 THEN Tramo(c, lo, hi)
           ELSE Valor({Tramos(c, pts, 1) :
                           pts \in {Puntos(lo, Cortes(Celdas(Derivada(c), lo, hi), 1, lo),
                                           hi)}}) :
               n \in {CambiosDeSigno(c, 1, 0)}})

MaxAbs(c) == CHOOSE m \in {Abs(c[i]) : i \in 1..Len(c)} :
                 \A i \in 1..Len(c) : Abs(c[i]) <= m

Min(a, b) == IF a <= b THEN a ELSE b

Max(a, b) == IF a >= b THEN a ELSE b

\* Cauchy's bound: with cl and ch the lowest and the highest nonzero coefficient and
\* M the largest magnitude, a root x # 0 has |cl| / (|cl| + M) < |x| < 1 + M / |ch|,
\* so the rate 1/x - 1 of a positive root lies between -M / (|ch| + M) and M / |cl|.
\* The grid starts above rate -1.
TasaMinima(c) ==
    LET ch == Abs(c[CHOOSE i \in NoCeros(c) : \A j \in NoCeros(c) : j <= i])
    IN  Max(1 - Escala, -((Escala * MaxAbs(c)) \div (ch + MaxAbs(c))) - 1)

TasaMaxima(c) ==
    LET cl == Abs(c[CHOOSE i \in NoCeros(c) : \A j \in NoCeros(c) : i <= j])
    IN  (Escala * MaxAbs(c)) \div cl + 1

\* twice the distance of a root cell from rate 0, rounded down
Distancia(c, k) ==
    IF SignoEn(c, k) = 0 THEN 2 * Abs(k)
    ELSE IF k >= 0 THEN 2 * k + 1 ELSE -2 * k - 1

\* argmin |rate|; of two cells at the same distance on the grid, the higher
RECURSIVE MasCercana(_, _, _, _)
MasCercana(c, cells, i, best) ==
    IF i > Len(cells) THEN best
    ELSE Valor({MasCercana(c, cells, j, b) :
                    j \in {i + 1},
                    b \in {IF Distancia(c, cells[i]) <= Distancia(c, best)
                           THEN cells[i] ELSE best}})

Numero(c, k) == [kind |-> "num", k |-> k, exact |-> SignoEn(c, k) = 0]

Raices(values) ==
    Valor({IF cells = <<>> THEN NoFinito("nan")
           ELSE Numero(values, MasCercana(values, cells, 2, cells[1])) :
               cells \in {Celdas(values, TasaMinima(values), TasaMaxima(values))}})

irr(values) ==
    IF TieneNaN(values)
    THEN (IF Cardinality(NoCeros(values)) > 1 THEN [kind |-> "raise"]
          ELSE NoFinito("nan"))
    ELSE IF NoCeros(values) = {} THEN NoFinito("nan")
    ELSE Raices(values)

(***************************************************************************)
(* The widgets and the bounds of the model.                                *)
(***************************************************************************)
InversionDefault == 10000

InversionStep == 1000

TasaDefault == 12 * Decimas

TasaStep == Decimas \div 2

SliderMin == 1

SliderMax == 20

SliderDefault == 5

\* the slider positions the model visits are SliderMin .. Min(SliderMax, MaxPeriodos)
MaxPeriodos == 5

\* at most this many cells of the editor differ from the table it was handed
MaxEdiciones == 2

\* the values the model gives the two number inputs, typed or stepped to
Inversiones == {InversionDefault, InversionDefault + InversionStep}

Tasas == {-100 * Decimas, -100 * Decimas + TasaStep, 0, TasaDefault}

\* the values the model types into a cell of each column; NaN empties the cell
IngresosTecleados == {10000, NaN}

EgresosTecleados == {5000}

\* the rows the model edits: the first and the last
FilasEditadas(n) == {1, n}

Periodos == SliderMin..Min(SliderMax, MaxPeriodos)

VARIABLES inversion_inicial, tasa_descuento, num_periodos, df_input, edited_df,
          flujos_completo, van, tir, tir_display, color_van, color_tir,
          memoria

\* memoria is not a variable of the program: it keeps the inputs and the results of
\* one earlier run of the script, for the comparison of two runs
vars == <<inversion_inicial, tasa_descuento, num_periodos, df_input, edited_df,
          flujos_completo, van, tir, tir_display, color_van, color_tir, memoria>>

(***************************************************************************)
(* The script, lines 49 to 106.                                            *)
(***************************************************************************)
None == [kind |-> "None"]

Repetir(v, n) == [i \in 1..n |-> v]

\* a variant of DatosIniciales: the example values only from four periods on
DatosIniciales_desde4(n) ==
    [Periodo  |-> [i \in 1..n |-> i],
     Ingresos |-> IF n > 3 THEN <<3000, 4000, 5000>> \o Repetir(5000, n - 3)
                  ELSE Repetir(0, n),
     Egresos  |-> IF n > 3 THEN <<1000, 1200, 1300>> \o Repetir(1300, n - 3)
                  ELSE Repetir(0, n)]

\* lines 50 to 61: the table handed to the editor
DatosIniciales(n) ==
    [Periodo  |-> [i \in 1..n |-> i],
     Ingresos |-> IF n >= 3 THEN <<3000, 4000, 5000>> \o Repetir(5000, n - 3)
                  ELSE Repetir(0, n),
     Egresos  |-> IF n >= 3 THEN <<1000, 1200, 1300>> \o Repetir(1300, n - 3)
                  ELSE Repetir(0, n)]

\* line 77
FlujoNeto(df) ==
    [i \in 1..Len(df.Ingresos) |-> Resta(df.Ingresos[i], df.Egresos[i])]

\* a variant of FlujosCompleto: the outlay enters the vector with its own sign
FlujosCompleto_sin_signo(inversion, neto) == <<inversion>> \o neto

\* line 80
FlujosCompleto(inversion, neto) == <<Negativo(inversion)>> \o neto

\* lines 87 to 92: tir, and the text of the third indicator
PorCien(r) ==
    IF r.kind = "num" THEN [r EXCEPT !.k = (r.k * 100 * Decimas) \div Escala] ELSE r

Formato2f(t) ==
    IF t.kind = "nan" THEN [texto |-> "nan%"] ELSE [texto |-> "%.2f%%", de |-> t]

Tir(values) ==
    Valor({IF r.kind = "raise" THEN None ELSE PorCien(r) : r \in {irr(values)}})

TirDisplay(t) == IF t = None THEN [texto |-> "No calc."] ELSE Formato2f(t)

\* a variant of MayorQue: tir >= tasa_descuento
MayorOIgual(t, tasa) ==
    /\ t.kind = "num"
    /\ t.k >= tasa

\* tir > tasa_descuento for a float tir: every comparison with nan is false
MayorQue(t, tasa) ==
    /\ t.kind = "num"
    /\ \/ t.k > tasa
       \/ t.k = tasa /\ ~t.exact

\* lines 101 and 102
ColorVan(v) == IF MayorQueCero(v) THEN "green" ELSE "red"

ColorTir(t, tasa) == IF t # None /\ MayorQue(t, tasa) THEN "green" ELSE "red"

\* the cells of the editor that differ from the table it was handed
Editadas(df, n) ==
    Cardinality({i \in 1..n : df.Ingresos[i] # DatosIniciales(n).Ingresos[i]})
        + Cardinality({i \in 1..n : df.Egresos[i] # DatosIniciales(n).Egresos[i]})

\* one run of the script, lines 49 to 106, on the widgets' values
Script(inversion, tasa, n, tabla) ==
    LET neto   == FlujoNeto(tabla)
        flujos == FlujosCompleto(inversion, neto)
        v      == net_present_value(Racional(tasa, Decimas * 100), flujos)
        t      == Tir(flujos)
    IN  Valor({[df_input        |-> DatosIniciales(n),
         edited_df       |-> [Periodo |-> tabla.Periodo, Ingresos |-> tabla.Ingresos,
                              Egresos |-> tabla.Egresos, FlujoNeto |-> neto],
         flujos_completo |-> fv,
         van             |-> vv,
         tir             |-> tv,
         tir_display     |-> TirDisplay(tv),
         color_van       |-> ColorVan(vv),
         color_tir       |-> ColorTir(tv, tasa)] :
                   fv \in {flujos}, vv \in {v}, tv \in {t}})

\* the inputs of the run that left the present state, and its results
Entrada ==
    [inversion |-> inversion_inicial, tasa |-> tasa_descuento, n |-> num_periodos,
     ingresos |-> edited_df.Ingresos, egresos |-> edited_df.Egresos]

Corrida ==
    [hay |-> TRUE, entrada |-> Entrada, van |-> van, tir |-> tir,
     tir_display |-> tir_display, color_van |-> color_van, color_tir |-> color_tir]

Nada == [hay |-> FALSE]

\* a variant of Ejecutar: van is kept from the run before when the rate and the
\* number of periods are the ones of that run
Ejecutar_con_cache(inversion, tasa, n, tabla) ==
    \E r \in {Script(inversion, tasa, n, tabla)} :
        /\ inversion_inicial' = inversion
        /\ tasa_descuento' = tasa
        /\ num_periodos' = n
        /\ df_input' = r.df_input
        /\ edited_df' = r.edited_df
        /\ flujos_completo' = r.flujos_completo
        /\ van' = IF tasa = tasa_descuento /\ n = num_periodos THEN van ELSE r.van
        /\ tir' = r.tir
        /\ tir_display' = r.tir_display
        /\ color_van' = r.color_van
        /\ color_tir' = r.color_tir

\* an interaction: the widgets take their new values and the script runs again
Ejecutar(inversion, tasa, n, tabla) ==
    \E r \in {Script(inversion, tasa, n, tabla)} :
        /\ inversion_inicial' = inversion
        /\ tasa_descuento' = tasa
        /\ num_periodos' = n
        /\ df_input' = r.df_input
        /\ edited_df' = r.edited_df
        /\ flujos_completo' = r.flujos_completo
        /\ van' = r.van
        /\ tir' = r.tir
        /\ tir_display' = r.tir_display
        /\ color_van' = r.color_van
        /\ color_tir' = r.color_tir

\* the first run: every widget at its default, the editor untouched
Init ==
    \E r \in {Script(InversionDefault, TasaDefault, SliderDefault,
                     DatosIniciales(SliderDefault))} :
        /\ inversion_inicial = InversionDefault
        /\ tasa_descuento = TasaDefault
        /\ num_periodos = SliderDefault
        /\ df_input = r.df_input
        /\ edited_df = r.edited_df
        /\ flujos_completo = r.flujos_completo
        /\ van = r.van
        /\ tir = r.tir
        /\ tir_display = r.tir_display
        /\ color_van = r.color_van
        /\ color_tir = r.color_tir
        /\ memoria = Nada

\* lines 26 to 31: a value typed into "Inversion Inicial"
TeclearInversion ==
    \E v \in Inversiones :
        /\ v # inversion_inicial
        /\ Ejecutar(v, tasa_descuento, num_periodos, edited_df)

\* its + and - buttons
PasoInversion ==
    \E d \in {-1, 1} :
        /\ inversion_inicial + d * InversionStep \in Inversiones
        /\ Ejecutar(inversion_inicial + d * InversionStep, tasa_descuento,
                    num_periodos, edited_df)

\* lines 33 to 38: a value typed into "Tasa de Descuento"; the input has no
\* min_value and no max_value
TeclearTasa ==
    \E v \in Tasas :
        /\ v # tasa_descuento
        /\ Ejecutar(inversion_inicial, v, num_periodos, edited_df)

PasoTasa ==
    \E d \in {-1, 1} :
        /\ tasa_descuento + d * TasaStep \in Tasas
        /\ Ejecutar(inversion_inicial, tasa_descuento + d * TasaStep,
                    num_periodos, edited_df)

\* line 40: the slider; the editor is handed a new table and forgets its edits
MoverSlider ==
    \E n \in Periodos :
        /\ n # num_periodos
        /\ Ejecutar(inversion_inicial, tasa_descuento, n, DatosIniciales(n))

\* lines 64 to 73: one cell of the editor edited; num_rows is "fixed" and the
\* columns are not required, so a cell can be emptied
EditarIngreso ==
    \E i \in FilasEditadas(num_periodos), v \in IngresosTecleados :
        LET tabla == [edited_df EXCEPT !.Ingresos[i] = v]
        IN  /\ v # edited_df.Ingresos[i]
            /\ Editadas(tabla, num_periodos) <= MaxEdiciones
            /\ Ejecutar(inversion_inicial, tasa_descuento, num_periodos, tabla)

EditarEgreso ==
    \E i \in FilasEditadas(num_periodos), v \in EgresosTecleados :
        LET tabla == [edited_df EXCEPT !.Egresos[i] = v]
        IN  /\ v # edited_df.Egresos[i]
            /\ Editadas(tabla, num_periodos) <= MaxEdiciones
            /\ Ejecutar(inversion_inicial, tasa_descuento, num_periodos, tabla)

Next ==
    \/ TeclearInversion /\ UNCHANGED memoria
    \/ PasoInversion /\ UNCHANGED memoria
    \/ TeclearTasa /\ UNCHANGED memoria
    \/ PasoTasa /\ UNCHANGED memoria
    \/ MoverSlider /\ UNCHANGED memoria
    \/ EditarIngreso /\ UNCHANGED memoria
    \/ EditarEgreso /\ UNCHANGED memoria

Spec == Init /\ [][Next]_vars

\* the sidebar alone, with any earlier run kept for comparison
Recordar == memoria' \in {memoria, Corrida}

NextMemoria ==
    \/ TeclearInversion /\ Recordar
    \/ PasoInversion /\ Recordar
    \/ TeclearTasa /\ Recordar
    \/ PasoTasa /\ Recordar
    \/ MoverSlider /\ Recordar

SpecMemoria == Init /\ [][NextMemoria]_vars

(***************************************************************************)
(* The properties.  Amounts are compared in cents, rates in tenths of a    *)
(* percent.                                                                *)
(***************************************************************************)
Tasa == Racional(tasa_descuento, Decimas * 100)

\* lo <= 100 * v <= hi for a finite v
EnCentimos(v, lo, hi) ==
    /\ v.kind = "num"
    /\ BigCmp(BigMul(v.n, BigOfInt(100)), BigMul(v.d, BigOfInt(lo))) >= 0
    /\ BigCmp(BigMul(v.n, BigOfInt(100)), BigMul(v.d, BigOfInt(hi))) <= 0

\* a <= b for two finite values
NoMayor(a, b) == BigCmp(BigMul(a.n, b.d), BigMul(b.n, a.d)) <= 0

SinCambioDeSigno ==
    /\ ~TieneNaN(flujos_completo)
    /\ \/ \A i \in 1..Len(flujos_completo) : flujos_completo[i] <= 0
       \/ \A i \in 1..Len(flujos_completo) : flujos_completo[i] >= 0

\* C1: whenever the vector of flows has no change of sign (every flow <= 0 or every
\* flow >= 0) the IRR step gives no IRR: tir is None and the indicator reads
\* 'No calc.'
C1_SinCambioDeSignoSinTir ==
    SinCambioDeSigno => tir = None /\ tir_display.texto = "No calc."

EscenarioA ==
    /\ inversion_inicial = 10000
    /\ tasa_descuento = 12 * Decimas
    /\ num_periodos = 5
    /\ edited_df.Ingresos = <<3000, 4000, 5000, 5000, 5000>>
    /\ edited_df.Egresos = <<1000, 1200, 1300, 1300, 1300>>

EscenarioAFlujos ==
    /\ edited_df.FlujoNeto = <<2000, 2800, 3700, 3700, 3700>>
    /\ flujos_completo = <<-10000, 2000, 2800, 3700, 3700, 3700>>
    /\ color_van = "green"
    /\ color_tir = "green"

EscenarioAPorDefecto ==
    num_periodos = SliderDefault =>
        /\ df_input.Ingresos = <<3000, 4000, 5000, 5000, 5000>>
        /\ df_input.Egresos = <<1000, 1200, 1300, 1300, 1300>>

C6_TirAnulaElVan ==
    tir # None =>
        /\ tir.kind = "num"
        /\ LET k == (tir.k * Escala) \div (100 * Decimas)
               a == net_present_value(Racional(k, Escala), flujos_completo)
               b == net_present_value(Racional(k + 1, Escala), flujos_completo)
           IN  /\ a.kind = "num"
               /\ IF tir.exact THEN a.n.s = 0
                  ELSE b.kind = "num" /\ a.n.s * b.n.s < 0

TasasDeComparacion == {-995, -500, 0, 50, 12 * Decimas, 1000}

Convencional ==
    /\ flujos_completo[1] < 0
    /\ \A i \in 2..Len(flujos_completo) : flujos_completo[i] >= 0

VanEn(r) ==
    IF r = tasa_descuento THEN van
    ELSE net_present_value(Racional(r, Decimas * 100), flujos_completo)

C9_TasaMenosCienInalcanzable == tasa_descuento # -100 * Decimas

\* C10: the table handed to the editor has num_periodos rows, with the periods 1 to
\* num_periodos, and columns of one length; it is all zeros under three periods and
\* from three periods on it starts 3000, 4000, 5000 (incomes) and 1000, 1200, 1300
\* (expenses) and repeats the third values; the editor keeps the number of rows, and
\* the vector of flows has num_periodos + 1 elements, between 2 and 21
C10_TablaInicial ==
    /\ num_periodos \in SliderMin..SliderMax
    /\ df_input.Periodo = [i \in 1..num_periodos |-> i]
    /\ Len(df_input.Ingresos) = num_periodos
    /\ Len(df_input.Egresos) = num_periodos
    /\ num_periodos < 3 =>
           \A i \in 1..num_periodos : df_input.Ingresos[i] = 0 /\ df_input.Egresos[i] = 0
    /\ num_periodos >= 3 =>
           \A i \in 1..num_periodos :
               /\ df_input.Ingresos[i] = (CASE i = 1 -> 3000 [] i = 2 -> 4000 [] OTHER -> 5000)
               /\ df_input.Egresos[i] = (CASE i = 1 -> 1000 [] i = 2 -> 1200 [] OTHER -> 1300)
    /\ edited_df.Periodo = df_input.Periodo
    /\ Len(edited_df.Ingresos) = num_periodos
    /\ Len(edited_df.Egresos) = num_periodos
    /\ Len(flujos_completo) = num_periodos + 1
    /\ Len(flujos_completo) \in 2..21

C10_Testigo ==
    /\ num_periodos = 3
    /\ df_input.Ingresos = <<3000, 4000, 5000>>
    /\ df_input.Egresos = <<1000, 1200, 1300>>
    /\ Len(flujos_completo) = 4

====
